---- MODULE Spec2Model ----
(***************************************************************************)
(* A model of the streaming core of dingtalk-agent-client:                 *)
(*   - MessageCallbackHandler (app/dingtalk/callback_handler.py): the      *)
(*     single-flight processing pipeline and its acknowledgements;         *)
(*   - DingTalkStreamManager (app/api/client/stream/stream_client.py): the *)
(*     connection supervisor loop, the health monitor loop, start(), stop().*)
(* SpecH is the handler alone and SpecQ its raw_process calls alone; SpecM  *)
(* is the manager as start() builds it and SpecMR the manager with a        *)
(* handler that records arrival times; the Fair specifications add the     *)
(* fairness of the scheduling.                                             *)
(***************************************************************************)
EXTENDS Integers, Sequences, FiniteSets, TLC

(* ------------------------------ bounds --------------------------------- *)
MaxReqs == 3
\* number of inbound frames the transport hands to raw_process

Epoch == 1000
\* time.time() at construction

TimeStep == 301
\* amount by which the clock advances in one step

MaxTime == 1350
\* the clock stops advancing here

MaxFailures == 6
\* start_forever ends unasked only in the first MaxFailures connection attempts

MaxDispatch == 1
\* number of frames the registered handler processes or fails on

Reqs == 1 .. MaxReqs

\* the thread pairs a manager can have created: one per start() call
Threads == {1, 2}

(* --------------------------- the handler ------------------------------- *)
VARIABLES
    now,            \* time.time()
    handlerStats,   \* MessageCallbackHandler.stats
    lockHeld,       \* processing_lock.locked()
    lockWaiters,    \* the tasks waiting in processing_lock, oldest first
    reqPc,          \* where each raw_process call is
    frame,          \* the inbound frame of each raw_process call
    ack,            \* the AckMessages each raw_process call has returned
    lockOrder,      \* the unfinished calls that had to wait, oldest first
    envelope,       \* callback.data of the frame process() is given
    parsed,         \* what _parse_message_content returned for it
    context         \* the MessageContext built from it

pvars == <<envelope, parsed, context>>

hvars == <<handlerStats, lockHeld, lockWaiters, reqPc, frame, ack, lockOrder,
           pvars>>

(* --------------------------- the manager ------------------------------- *)
VARIABLES
    stop_event,       \* DingTalkStreamManager.stop_event.is_set()
    stream_client,    \* 0 for None, else the number of the client object
    is_healthy,
    managerStats,     \* DingTalkStreamManager.stats
    registered,       \* stats of self.handler, the DingTalkChatbotHandler
    supPc,            \* where each _start_client_with_reconnection thread is
    reconnect_interval, \* the local reconnect_interval of each such thread
    runningOn,        \* the client whose start_forever each thread is inside
    monPc,            \* where each _monitor_connection_health thread is
    callerPc,         \* where the thread calling start() and stop() is
    closedIdle,       \* clients asked to close while no start_forever ran
    monitorCloses,    \* one-bit count of the monitor's close requests
    waitCount,        \* backoff waits each supervisor thread has entered
    dispatchedAt      \* time.time() when the handler last took a frame, else 0

mvars == <<stop_event, stream_client, is_healthy, managerStats, registered,
           supPc, reconnect_interval, runningOn, monPc, callerPc, closedIdle,
           monitorCloses, waitCount, dispatchedAt>>

vars == <<now, hvars, mvars>>

NoFrame == [kind |-> "none", message_id |-> 0]

\* What an inbound frame can be to process():
\*   bad_frame   GraphRequest.from_dict(callback.data) raises
\*   unparsable  _parse_message_content catches its own exception: ("", {})
\*   empty       input is empty after strip()
\*   text        input is non-empty after strip()
FrameKinds == {"bad_frame", "unparsable", "empty", "text"}

\* How the awaited _process_with_agent_manager can end:
\*   text, tool, none   agent returned: a plain result, a dict with tool_name,
\*                      a falsy result
\*   tool_malformed     a dict with tool_name but without tool_args/summary
\*   block              a result object with the attributes text and type
\*   agent_error        the agent raised: caught inside, an error dict returned
\*   timeout            asyncio.TimeoutError
Outcomes ==
    {"text", "tool", "none", "block", "tool_malformed", "agent_error",
     "timeout"}

STATUS_OK == "OK"

STATUS_SYSTEM_EXCEPTION == "SYSTEM_EXCEPTION"

HandlerStatsInit ==
    [messages_received |-> 0, messages_processed |-> 0, errors |-> 0,
     timeouts |-> 0, last_message_time |-> 0]

Bump(s, f) == [s EXCEPT ![f] = @ + 1]

\* _create_empty_response
CreateEmptyResponse ==
    [code |-> STATUS_OK, status |-> 200, reason |-> "OK",
     body |-> "empty_message", body_keys |-> {"status", "text"}]

\* _create_error_response
CreateErrorResponse(msg) ==
    [code |-> STATUS_SYSTEM_EXCEPTION, status |-> 500,
     reason |-> "Internal Server Error", body |-> msg,
     body_keys |-> {"error"}]

\* _create_response, for a result that builds: the error dict that
\* _process_with_agent_manager returns for a failed agent has no tool_name and
\* becomes the content of an OK response
\* _create_tool_response
CreateToolResponse_noSummary ==
    [body |-> "tool_result",
     keys |-> {"tool_name", "tool_args", "tool_output"}]

CreateToolResponse ==
    [body |-> "tool_result",
     keys |-> {"tool_name", "tool_args", "tool_output", "text"}]

\* _create_text_response
CreateTextResponse(o) ==
    CASE o = "block" -> [body |-> "text", keys |-> {"text"}]
      [] o = "agent_error" -> [body |-> "content_error_dict",
                               keys |-> {"content"}]
      [] OTHER -> [body |-> "content", keys |-> {"content"}]

CreateResponse(o) ==
    IF o = "none" THEN CreateEmptyResponse
    ELSE LET b == IF o = "tool" THEN CreateToolResponse
                                ELSE CreateTextResponse(o) IN
         [code |-> STATUS_OK, status |-> 200, reason |-> "OK",
          body |-> b.body, body_keys |-> b.keys]

\* raw_process: the AckMessage built from process()'s return value for the
\* callback f
RawProcessAck_noEcho(f, resp) ==
    [code |-> resp.code, message_id |-> 0,
     content_type |-> "application/json", response |-> resp]

RawProcessAck(f, resp) ==
    [code |-> resp.code, message_id |-> f.message_id,
     content_type |-> "application/json", response |-> resp]

\* raw_process returns; frame'[r] is the callback it was called with
Returns(r, resp) ==
    /\ reqPc' = [reqPc EXCEPT ![r] = "done"]
    /\ ack' = [ack EXCEPT ![r] = Append(@, RawProcessAck(frame'[r], resp))]

(* ---------------------- _parse_message_content -------------------------- *)
\* An optional field of the envelope: <<>> when the key is missing, <<v>> when
\* it is there with the string v.
Missing == <<>>

\* Python's None
None == "None"

\* The keys of the envelope that _parse_message_content reads with a default
\* of "" (lines 278-284)
OtherFields ==
    {"sender_id", "conversation_id", "conversation_title",
     "conversationToken", "sender_union_id"}

\* values of `input`, as sequences of characters
InputStrings ==
    {<<>>, <<" ">>, <<"h">>, <<" ", "h", " ">>, <<"h", " ", "h">>}

\* callback.data:
\*   form       bad_frame: GraphRequest.from_dict raises; bad_str: the body is
\*              a str that json.loads rejects; json_str, dict: a JSON object
\*   msgType    absent; not_json; scalar: JSON but not an object; no_key: an
\*              object without msgType; text: {"msgType":"text"}
\*   input      absent, null, or a string
\*   scenarioContext  absent; not_json; scalar; object: with orgId, requestId
Envelopes ==
    [form : {"bad_frame", "bad_str", "json_str", "dict"},
     msgType : {"absent", "not_json", "scalar", "no_key", "text"},
     input : [state : {"absent", "null"}, val : {<<>>}]
                \cup [state : {"str"}, val : InputStrings],
     sender_nick : {Missing, <<"zhangdaping">>},
     conversation_type : {Missing, <<"1">>, <<"copilot">>},
     others : [OtherFields -> {Missing, <<"v">>}],
     orgId : {Missing, <<"org1">>},
     scenarioContext : {"absent", "not_json", "scalar", "object"}]

NoEnvelope ==
    [form |-> "none", msgType |-> "absent",
     input |-> [state |-> "absent", val |-> <<>>],
     sender_nick |-> Missing, conversation_type |-> Missing,
     others |-> [f \in OtherFields |-> Missing],
     orgId |-> Missing, scenarioContext |-> "absent"]

\* str.strip() on a sequence of characters
RECURSIVE LStrip(_)
LStrip(s) == IF s # <<>> /\ Head(s) = " " THEN LStrip(Tail(s)) ELSE s

RECURSIVE RStrip(_)
RStrip(s) ==
    IF s # <<>> /\ s[Len(s)] = " " THEN RStrip(SubSeq(s, 1, Len(s) - 1)) ELSE s

Strip(s) == RStrip(LStrip(s))

\* dict.get(key, default)
Get_noDefault(field, default) == IF field = Missing THEN "" ELSE field[1]

Get(field, default) == IF field = Missing THEN default ELSE field[1]

\* lines 290-292: the except branch returns ("", {})
ParseFailed == [ok |-> FALSE, text |-> <<>>]

NotParsed == [ok |-> FALSE, text |-> <<"?">>]

\* lines 251-257: what raises inside the try
ParseRaises_strictContext(e) ==
    \/ e.form = "bad_str"
    \/ e.msgType \in {"absent", "not_json", "scalar"}
    \/ e.input.state = "null"
    \/ e.orgId = Missing /\ e.scenarioContext \in {"not_json", "scalar"}

ParseRaises(e) ==
    \/ e.form = "bad_str"
    \/ e.msgType \in {"absent", "not_json", "scalar"}
    \/ e.input.state = "null"

\* lines 260-273: request_id is read from scenarioContext only when the body
\* has no orgId, and a scenarioContext that does not parse is passed over
RequestId(e) ==
    IF e.orgId = Missing /\ e.scenarioContext = "object" THEN "req1" ELSE None

\* lines 276-286
Metadata(e) ==
    [msg_type |-> IF e.msgType = "text" THEN "text" ELSE None,
     sender_id |-> Get(e.others["sender_id"], ""),
     sender_nick |-> Get(e.sender_nick, "Unknown User"),
     conversation_id |-> Get(e.others["conversation_id"], ""),
     conversation_type |-> Get(e.conversation_type, "1"),
     group_name |-> Get(e.others["conversation_title"], ""),
     conversation_token |-> Get(e.others["conversationToken"], ""),
     sender_union_id |-> Get(e.others["sender_union_id"], ""),
     request_id |-> RequestId(e)]

\* _parse_message_content
ParseMessageContent(e) ==
    IF ParseRaises(e) THEN ParseFailed
    ELSE [ok |-> TRUE,
          text |-> IF e.input.state = "absent" THEN <<>>
                                               ELSE Strip(e.input.val),
          metadata |-> Metadata(e)]

\* process, lines 74-84: the MessageContext
NoContext == [content |-> <<>>, is_group_chat |-> FALSE, built |-> FALSE]

BuildContext(p) ==
    [content |-> p.text,
     user_name |-> p.metadata.sender_nick,
     user_id |-> p.metadata.sender_id,
     sender_union_id |-> p.metadata.sender_union_id,
     is_group_chat |-> p.metadata.conversation_type # "1",
     group_name |-> p.metadata.group_name,
     conversation_id |-> p.metadata.conversation_id,
     conversation_token |-> p.metadata.conversation_token,
     built |-> TRUE]

\* process, lines 58-67: which way a frame goes
KindOf_noEmptyCheck(e) ==
    CASE e.form = "bad_frame" -> "bad_frame"
      [] ParseRaises(e) -> "unparsable"
      [] OTHER -> "text"

KindOf(e) ==
    CASE e.form = "bad_frame" -> "bad_frame"
      [] ParseRaises(e) -> "unparsable"
      [] ParseMessageContent(e).text = <<>> -> "empty"
      [] OTHER -> "text"

PInit ==
    /\ envelope = NoEnvelope
    /\ parsed = NotParsed
    /\ context = NoContext

HInit ==
    /\ handlerStats = HandlerStatsInit
    /\ lockHeld = FALSE
    /\ lockWaiters = <<>>
    /\ reqPc = [r \in Reqs |-> "new"]
    /\ frame = [r \in Reqs |-> NoFrame]
    /\ ack = [r \in Reqs |-> <<>>]
    /\ lockOrder = <<>>

\* asyncio.Lock.acquire returns at once when the lock is free and nobody waits
CanAcquire_nolock == TRUE

CanAcquire == ~lockHeld /\ lockWaiters = <<>>

\* `async with` leaves the locked section by __aexit__ on every outcome
ReleasesLock_exceptTimeout(o) == o # "timeout"

ReleasesLock_successOnly(o) == o \notin {"timeout", "tool_malformed"}

ReleasesLock(o) == TRUE

\* The transport hands a frame to raw_process; process() runs up to its first
\* suspension point.
ArriveBadFrame_raises(r) ==
    /\ handlerStats' = Bump(handlerStats, "errors")
    /\ reqPc' = [reqPc EXCEPT ![r] = "done"]
    /\ UNCHANGED <<lockHeld, lockWaiters, ack>>

ArriveBadFrame(r) ==
    /\ handlerStats' = Bump(handlerStats, "errors")
    /\ Returns(r, CreateErrorResponse("Parse error"))
    /\ UNCHANGED <<lockHeld, lockWaiters>>

ArriveEmpty_counted(r) ==
    /\ Returns(r, CreateEmptyResponse)
    /\ handlerStats' = Bump(handlerStats, "messages_received")
    /\ UNCHANGED <<lockHeld, lockWaiters>>

ArriveEmpty(r) ==
    /\ Returns(r, CreateEmptyResponse)
    /\ UNCHANGED <<handlerStats, lockHeld, lockWaiters>>

ArriveText_countsUnderLock(r) ==
    /\ IF CanAcquire
         THEN /\ handlerStats' = [handlerStats EXCEPT
                                    !.messages_received = @ + 1,
                                    !.last_message_time = now]
              /\ lockHeld' = TRUE
              /\ reqPc' = [reqPc EXCEPT ![r] = "handling"]
              /\ UNCHANGED lockWaiters
         ELSE /\ lockWaiters' = Append(lockWaiters, r)
              /\ reqPc' = [reqPc EXCEPT ![r] = "waiting"]
              /\ UNCHANGED <<handlerStats, lockHeld>>
    /\ UNCHANGED ack

ArriveText(r) ==
    /\ handlerStats' = [handlerStats EXCEPT !.messages_received = @ + 1,
                                            !.last_message_time = now]
    /\ IF CanAcquire
         THEN /\ lockHeld' = TRUE
              /\ reqPc' = [reqPc EXCEPT ![r] = "handling"]
              /\ UNCHANGED lockWaiters
         ELSE /\ lockWaiters' = Append(lockWaiters, r)
              /\ reqPc' = [reqPc EXCEPT ![r] = "waiting"]
              /\ UNCHANGED lockHeld
    /\ UNCHANGED ack

Arrive(r) ==
    /\ reqPc[r] = "new"
    /\ \E k \in FrameKinds :
         /\ frame' = [frame EXCEPT ![r] = [kind |-> k, message_id |-> r]]
         /\ CASE k = "bad_frame" -> ArriveBadFrame(r)
              [] k \in {"unparsable", "empty"} -> ArriveEmpty(r)
              [] OTHER -> ArriveText(r)
    /\ lockOrder' = IF reqPc'[r] = "waiting" THEN Append(lockOrder, r)
                                             ELSE lockOrder
    /\ UNCHANGED <<now, pvars, mvars>>

\* The transport hands the frame whose data is `envelope` to raw_process
ArriveEnvelope(r) ==
    /\ reqPc[r] = "new"
    /\ envelope # NoEnvelope
    /\ LET k == KindOf(envelope)
           p == ParseMessageContent(envelope) IN
         /\ frame' = [frame EXCEPT ![r] = [kind |-> k, message_id |-> r]]
         /\ parsed' = IF k = "bad_frame" THEN parsed ELSE p
         /\ context' = IF k = "text" THEN BuildContext(p) ELSE context
         /\ CASE k = "bad_frame" -> ArriveBadFrame(r)
              [] k \in {"unparsable", "empty"} -> ArriveEmpty(r)
              [] OTHER -> ArriveText(r)
    /\ lockOrder' = IF reqPc'[r] = "waiting" THEN Append(lockOrder, r)
                                             ELSE lockOrder
    /\ UNCHANGED <<now, envelope, mvars>>

\* release() wakes the oldest waiter; it takes the lock when it runs again
LockResume_newestFirst(r) ==
    /\ reqPc[r] = "waiting"
    /\ ~lockHeld
    /\ lockWaiters # <<>> /\ lockWaiters[Len(lockWaiters)] = r
    /\ lockWaiters' = SubSeq(lockWaiters, 1, Len(lockWaiters) - 1)
    /\ lockHeld' = TRUE
    /\ reqPc' = [reqPc EXCEPT ![r] = "handling"]
    /\ UNCHANGED <<now, handlerStats, frame, ack, lockOrder, pvars, mvars>>

LockResume(r) ==
    /\ reqPc[r] = "waiting"
    /\ ~lockHeld
    /\ lockWaiters # <<>> /\ Head(lockWaiters) = r
    /\ lockWaiters' = Tail(lockWaiters)
    /\ lockHeld' = TRUE
    /\ reqPc' = [reqPc EXCEPT ![r] = "handling"]
    /\ UNCHANGED <<now, handlerStats, frame, ack, lockOrder, pvars, mvars>>

RemoveWaiter(s, r) == SelectSeq(s, LAMBDA x : x # r)

\* lines 100, 109, 114: the stats after the awaited call has ended with o
StatsAfter_timeoutAsError(s, o) ==
    CASE o = "timeout" -> Bump(Bump(s, "timeouts"), "errors")
      [] o = "tool_malformed" -> Bump(Bump(s, "messages_processed"), "errors")
      [] OTHER -> Bump(s, "messages_processed")

StatsAfter(s, o) ==
    CASE o = "timeout" -> Bump(s, "timeouts")
      [] o = "tool_malformed" -> Bump(Bump(s, "messages_processed"), "errors")
      [] OTHER -> Bump(s, "messages_processed")

\* The awaited wait_for(_process_with_agent_manager) ends; process() runs to
\* its return and raw_process builds the acknowledgement.  On a timeout
\* wait_for has cancelled the inner call and awaited its end before it raises,
\* so nothing of the call is left to run afterwards.
HandlerFinish_abandonedRuns(r) ==
    \/ /\ reqPc[r] = "handling"
       /\ frame' = frame
       /\ \E o \in Outcomes :
            /\ handlerStats' = StatsAfter(handlerStats, o)
            /\ Returns(r, CASE o = "timeout" -> CreateErrorResponse("Processing timeout")
                            [] o = "tool_malformed" -> CreateErrorResponse("KeyError")
                            [] OTHER -> CreateResponse(o))
            /\ lockHeld' = IF ReleasesLock(o) THEN FALSE ELSE lockHeld
       /\ lockOrder' = RemoveWaiter(lockOrder, r)
       /\ UNCHANGED <<now, lockWaiters, pvars, mvars>>
    \/ /\ reqPc[r] = "done"
       /\ Len(ack[r]) = 1
       /\ ack[r][1].response.body = "Processing timeout"
       /\ handlerStats' = Bump(handlerStats, "messages_processed")
       /\ ack' = [ack EXCEPT ![r] =
                    Append(@, RawProcessAck(frame[r], CreateResponse("text")))]
       /\ lockHeld' = FALSE
       /\ UNCHANGED <<now, lockWaiters, reqPc, frame, lockOrder, pvars, mvars>>

HandlerFinish(r) ==
    /\ reqPc[r] = "handling"
    /\ frame' = frame
    /\ \E o \in Outcomes :
         /\ handlerStats' = StatsAfter(handlerStats, o)
         /\ Returns(r, CASE o = "timeout" -> CreateErrorResponse("Processing timeout")
                         [] o = "tool_malformed" -> CreateErrorResponse("KeyError")
                         [] OTHER -> CreateResponse(o))
         /\ lockHeld' = IF ReleasesLock(o) THEN FALSE ELSE lockHeld
    /\ lockOrder' = RemoveWaiter(lockOrder, r)
    /\ UNCHANGED <<now, lockWaiters, pvars, mvars>>

\* The task running raw_process is cancelled (the event loop shuts down):
\* CancelledError leaves acquire() or the locked section; nothing is returned.
Cancel(r) ==
    /\ reqPc[r] \in {"waiting", "handling"}
    /\ reqPc' = [reqPc EXCEPT ![r] = "cancelled"]
    /\ IF reqPc[r] = "handling"
         THEN lockHeld' = FALSE /\ UNCHANGED lockWaiters
         ELSE lockWaiters' = RemoveWaiter(lockWaiters, r) /\ UNCHANGED lockHeld
    /\ lockOrder' = RemoveWaiter(lockOrder, r)
    /\ UNCHANGED <<now, handlerStats, frame, ack, pvars, mvars>>

\* reset_stats
ResetStats_all ==
    /\ handlerStats' = HandlerStatsInit
    /\ handlerStats' # handlerStats
    /\ UNCHANGED <<now, lockHeld, lockWaiters, reqPc, frame, ack, lockOrder,
                   pvars, mvars>>

ResetStats ==
    /\ handlerStats' = [handlerStats EXCEPT !.messages_received = 0,
                                            !.messages_processed = 0,
                                            !.errors = 0,
                                            !.timeouts = 0]
    /\ handlerStats' # handlerStats
    /\ UNCHANGED <<now, lockHeld, lockWaiters, reqPc, frame, ack, lockOrder,
                   pvars, mvars>>

AdvanceTime ==
    /\ now + TimeStep <= MaxTime
    /\ now' = now + TimeStep
    /\ UNCHANGED <<hvars, mvars>>


(* --------------------------- the manager ------------------------------- *)
\* __init__: self.reconnect_interval, self.max_reconnect_interval,
\* self.connection_timeout
InitialReconnectInterval == 5

MaxReconnectInterval == 60

ConnectionTimeout == 300

Min(a, b) == IF a < b THEN a ELSE b

ManagerStatsInit ==
    [connection_attempts |-> 0, successful_connections |-> 0,
     reconnections |-> 0, last_connection_time |-> 0, uptime |-> 0]

\* DingTalkChatbotHandler.__init__: self.stats
RegisteredStatsInit ==
    [messages_received |-> 0, messages_processed |-> 0, errors |-> 0,
     last_message_time |-> 0]

MInit ==
    /\ stop_event = FALSE
    /\ stream_client = 0
    /\ is_healthy = FALSE
    /\ managerStats = ManagerStatsInit
    /\ registered = RegisteredStatsInit
    /\ supPc = [t \in Threads |-> "none"]
    /\ reconnect_interval = [t \in Threads |-> 0]
    /\ runningOn = [t \in Threads |-> 0]
    /\ monPc = [t \in Threads |-> "none"]
    /\ callerPc = "idle"
    /\ closedIdle = {}
    /\ monitorCloses = 0
    /\ waitCount = [t \in Threads |-> 0]
    /\ dispatchedAt = 0

NStarts == Cardinality({t \in Threads : supPc[t] # "none"})

InStartForever(t) == supPc[t] \in {"running", "closing"}

\* stream_client.stop(): every start_forever running on client c is told to
\* end; a request that finds none running is remembered in closedIdle, and the
\* next start_forever on c may or may not honour it.
CloseRequest_ignored(c) ==
    /\ closedIdle' = closedIdle \cup {c}
    /\ UNCHANGED supPc

CloseRequest(c) ==
    IF \E t \in Threads : InStartForever(t) /\ runningOn[t] = c
      THEN /\ supPc' = [t \in Threads |->
                          IF supPc[t] = "running" /\ runningOn[t] = c
                            THEN "closing" ELSE supPc[t]]
           /\ UNCHANGED closedIdle
      ELSE /\ closedIdle' = closedIdle \cup {c}
           /\ UNCHANGED supPc

(* start(), lines 51-116: stop_event, created in __init__ (line 30), is used
   as it is; start() does not clear it *)
StopEventAfterStart_cleared(e) == FALSE

StopEventAfterStart(e) == e

(* start(), lines 66-106: handler, client and both threads are created *)
StartBegin ==
    /\ callerPc = "idle"
    /\ NStarts < Cardinality(Threads)
    /\ LET t == NStarts + 1 IN
         /\ registered' = RegisteredStatsInit
         /\ stream_client' = t
         /\ supPc' = [supPc EXCEPT ![t] = "check"]
         /\ reconnect_interval' =
              [reconnect_interval EXCEPT ![t] = InitialReconnectInterval]
         /\ monPc' = [monPc EXCEPT ![t] = "check"]
    /\ dispatchedAt' = 0
    /\ callerPc' = "start_stats"
    /\ stop_event' = StopEventAfterStart(stop_event)
    /\ UNCHANGED <<now, hvars, is_healthy, managerStats, runningOn,
                   closedIdle, monitorCloses, waitCount>>

(* ApplicationContext.initialize: the manager is constructed and started *)
FirstStart ==
    /\ NStarts = 0
    /\ StartBegin

(* start() called again on the manager: nothing in start() looks at an
   earlier call *)
Restart ==
    /\ NStarts > 0
    /\ StartBegin

(* start(), lines 109-110 *)
StartFinish ==
    /\ callerPc = "start_stats"
    /\ managerStats' = [managerStats EXCEPT !.last_connection_time = now]
    /\ is_healthy' = TRUE
    /\ callerPc' = "idle"
    /\ UNCHANGED <<now, hvars, dispatchedAt, stop_event, stream_client,
                   registered, supPc, reconnect_interval, runningOn, monPc,
                   closedIdle, monitorCloses, waitCount>>

(* _start_client_with_reconnection, line 122: the while condition *)
SupCheck(t) ==
    /\ supPc[t] = "check"
    /\ supPc' = [supPc EXCEPT ![t] = IF stop_event THEN "exit" ELSE "connecting"]
    /\ UNCHANGED <<now, hvars, dispatchedAt, stop_event, stream_client,
                   is_healthy, managerStats, registered, reconnect_interval,
                   runningOn, monPc, callerPc, closedIdle, monitorCloses,
                   waitCount>>

(* line 124: the only statistic the supervisor writes before it connects *)
AttemptStats_recordsTime(stats) ==
    [stats EXCEPT !.connection_attempts = @ + 1, !.last_connection_time = now]

AttemptStats_notCounted(stats) == stats

AttemptStats(stats) == [stats EXCEPT !.connection_attempts = @ + 1]

(* lines 124-128: count the attempt and call self.stream_client.start_forever();
   stream_client is None after stop(): AttributeError *)
SupConnect(t) ==
    /\ supPc[t] = "connecting"
    /\ managerStats' = AttemptStats(managerStats)
    /\ IF stream_client = 0
         THEN /\ supPc' = [supPc EXCEPT ![t] = "raised"]
              /\ UNCHANGED <<runningOn, closedIdle>>
         ELSE /\ runningOn' = [runningOn EXCEPT ![t] = stream_client]
              /\ closedIdle' = closedIdle \ {stream_client}
              /\ \/ supPc' = [supPc EXCEPT ![t] = "running"]
                 \/ /\ stream_client \in closedIdle
                    /\ supPc' = [supPc EXCEPT ![t] = "returned"]
    /\ UNCHANGED <<now, hvars, dispatchedAt, stop_event, stream_client,
                   is_healthy, registered, reconnect_interval, monPc, callerPc,
                   monitorCloses, waitCount>>

(* start_forever ends though nobody asked: a clean remote close (returns) or a
   transport error (raises) *)
TransportExit(t) ==
    /\ supPc[t] = "running"
    /\ managerStats.connection_attempts <= MaxFailures
    /\ \E how \in {"returned", "raised"} : supPc' = [supPc EXCEPT ![t] = how]
    /\ UNCHANGED <<now, hvars, dispatchedAt, stop_event, stream_client,
                   is_healthy, managerStats, registered, reconnect_interval,
                   runningOn, monPc, callerPc, closedIdle, monitorCloses,
                   waitCount>>

(* start_forever ends because the client was asked to close *)
TransportClosed(t) ==
    /\ supPc[t] = "closing"
    /\ \E how \in {"returned", "raised"} : supPc' = [supPc EXCEPT ![t] = how]
    /\ UNCHANGED <<now, hvars, dispatchedAt, stop_event, stream_client,
                   is_healthy, managerStats, registered, reconnect_interval,
                   runningOn, monPc, callerPc, closedIdle, monitorCloses,
                   waitCount>>

(* lines 120-143: the local reconnect_interval is set once, before the loop,
   and is not touched when start_forever returns or raises *)
IntervalAfterRun_reset(i) == InitialReconnectInterval

IntervalAfterRun(i) == i

(* lines 130-143: after start_forever returned or raised *)
SupAfterExit_noStopCheck(t) ==
    /\ supPc[t] \in {"returned", "raised"}
    /\ is_healthy' = FALSE
    /\ managerStats' = [managerStats EXCEPT !.reconnections = @ + 1]
    /\ waitCount' = [waitCount EXCEPT ![t] = @ + 1]
    /\ supPc' = [supPc EXCEPT ![t] = "backoff"]
    /\ UNCHANGED <<now, hvars, dispatchedAt, stop_event, stream_client,
                   registered, reconnect_interval, runningOn, monPc, callerPc,
                   closedIdle, monitorCloses>>

SupAfterExit(t) ==
    /\ supPc[t] \in {"returned", "raised"}
    /\ IF stop_event
         THEN /\ supPc' = [supPc EXCEPT ![t] = "exit"]
              /\ UNCHANGED is_healthy
         ELSE /\ is_healthy' = FALSE
              /\ supPc' = [supPc EXCEPT ![t] = "recheck"]
    /\ reconnect_interval' =
         [reconnect_interval EXCEPT ![t] = IntervalAfterRun(@)]
    /\ UNCHANGED <<now, hvars, dispatchedAt, stop_event, stream_client,
                   managerStats, registered, runningOn, monPc, callerPc,
                   closedIdle, monitorCloses, waitCount>>

(* lines 145-153: the second stop check, then count the reconnection and enter
   stop_event.wait(reconnect_interval) *)
SupReconnect_maxRetries(t) ==
    /\ supPc[t] = "recheck"
    /\ IF stop_event \/ managerStats.reconnections >= 3
         THEN /\ supPc' = [supPc EXCEPT ![t] = "exit"]
              /\ UNCHANGED <<managerStats, waitCount>>
         ELSE /\ managerStats' = [managerStats EXCEPT !.reconnections = @ + 1]
              /\ waitCount' = [waitCount EXCEPT ![t] = @ + 1]
              /\ supPc' = [supPc EXCEPT ![t] = "backoff"]
    /\ UNCHANGED <<now, hvars, dispatchedAt, stop_event, stream_client,
                   is_healthy, registered, reconnect_interval, runningOn,
                   monPc, callerPc, closedIdle, monitorCloses>>

SupReconnect(t) ==
    /\ supPc[t] = "recheck"
    /\ IF stop_event
         THEN /\ supPc' = [supPc EXCEPT ![t] = "exit"]
              /\ UNCHANGED <<managerStats, waitCount>>
         ELSE /\ managerStats' = [managerStats EXCEPT !.reconnections = @ + 1]
              /\ waitCount' = [waitCount EXCEPT ![t] = @ + 1]
              /\ supPc' = [supPc EXCEPT ![t] = "backoff"]
    /\ UNCHANGED <<now, hvars, dispatchedAt, stop_event, stream_client,
                   is_healthy, registered, reconnect_interval, runningOn,
                   monPc, callerPc, closedIdle, monitorCloses>>

(* line 158 *)
NextInterval_uncapped(i) == i * 2

NextInterval(i) == Min(i * 2, MaxReconnectInterval)

(* lines 154-158: stop_event.wait(reconnect_interval) returns True as soon as
   the event is set, False when the interval has passed without it *)
SupBackoff_sleep(t) ==
    /\ supPc[t] = "backoff"
    /\ reconnect_interval' =
         [reconnect_interval EXCEPT ![t] = NextInterval(@)]
    /\ supPc' = [supPc EXCEPT ![t] = "check"]
    /\ UNCHANGED <<now, hvars, dispatchedAt, stop_event, stream_client,
                   is_healthy, managerStats, registered, runningOn, monPc,
                   callerPc, closedIdle, monitorCloses, waitCount>>

SupBackoff(t) ==
    /\ supPc[t] = "backoff"
    /\ IF stop_event
         THEN /\ supPc' = [supPc EXCEPT ![t] = "exit"]
              /\ UNCHANGED reconnect_interval
         ELSE /\ reconnect_interval' =
                   [reconnect_interval EXCEPT ![t] = NextInterval(@)]
              /\ supPc' = [supPc EXCEPT ![t] = "check"]
    /\ UNCHANGED <<now, hvars, dispatchedAt, stop_event, stream_client,
                   is_healthy, managerStats, registered, runningOn, monPc,
                   callerPc, closedIdle, monitorCloses, waitCount>>

(* _monitor_connection_health, line 162: the while condition *)
MonCheck_underLock(t) ==
    /\ monPc[t] = "check"
    /\ ~lockHeld
    /\ monPc' = [monPc EXCEPT ![t] = IF stop_event THEN "exit" ELSE "tick"]
    /\ UNCHANGED <<now, hvars, dispatchedAt, stop_event, stream_client,
                   is_healthy, managerStats, registered, supPc,
                   reconnect_interval, runningOn, callerPc, closedIdle,
                   monitorCloses, waitCount>>

MonCheck(t) ==
    /\ monPc[t] = "check"
    /\ monPc' = [monPc EXCEPT ![t] = IF stop_event THEN "exit" ELSE "tick"]
    /\ UNCHANGED <<now, hvars, dispatchedAt, stop_event, stream_client,
                   is_healthy, managerStats, registered, supPc,
                   reconnect_interval, runningOn, callerPc, closedIdle,
                   monitorCloses, waitCount>>

(* line 170 *)
HasSeenMessage_always(last_message_time) == last_message_time >= 0

HasSeenMessage(last_message_time) == last_message_time > 0

(* line 174 *)
IsStale(last_message_time) == now - last_message_time > ConnectionTimeout

(* lines 194-198: an exception of the tick is logged and the loop goes on to
   its wait, as it does after a tick that raised nothing *)
AfterTick_escapes(raised) == IF raised THEN "exit" ELSE "wait"

AfterTick(raised) == "wait"

(* lines 190-192: uptime is updated when is_healthy holds after the check *)
UptimeAfter_always(stats, healthy) ==
    [stats EXCEPT !.uptime = now - stats.last_connection_time]

UptimeAfter(stats, healthy) ==
    IF healthy
      THEN [stats EXCEPT !.uptime = now - stats.last_connection_time]
      ELSE stats

(* lines 179-185: the forced close leaves the handler's statistics alone;
   last_message_time is not reset *)
AfterForcedClose_restartsClock(stats) == [stats EXCEPT !.last_message_time = now]

AfterForcedClose(stats) == stats

(* lines 163-195: one health check; a forced close is followed by one more
   connection attempt, so it is taken only while attempts are within bounds *)
MonTick(t) ==
    /\ monPc[t] = "tick"
    /\ monPc' = [monPc EXCEPT ![t] = AfterTick(FALSE)]
    /\ LET lmt == registered.last_message_time
           seen == HasSeenMessage(lmt)
           stale == seen /\ IsStale(lmt)
           force == stale /\ stream_client # 0 /\ ~stop_event
           healthy == IF seen THEN ~stale ELSE is_healthy
       IN /\ force => managerStats.connection_attempts <= MaxFailures
          /\ is_healthy' = healthy
          /\ IF force
               THEN /\ CloseRequest(stream_client)
                    /\ monitorCloses' = 1 - monitorCloses
                    /\ registered' = AfterForcedClose(registered)
               ELSE UNCHANGED <<supPc, closedIdle, monitorCloses, registered>>
          /\ managerStats' = UptimeAfter(managerStats, healthy)
    /\ UNCHANGED <<now, hvars, dispatchedAt, stop_event, stream_client,
                   reconnect_interval, runningOn, callerPc, waitCount>>

(* lines 174-185: the same check when stream_client.stop() raises (the library
   call fails, or stop() has cleared the client since line 179): is_healthy is
   already False, nothing is closed, the exception is logged at line 185 *)
MonTickRaises(t) ==
    /\ monPc[t] = "tick"
    /\ HasSeenMessage(registered.last_message_time)
    /\ IsStale(registered.last_message_time)
    /\ stream_client # 0
    /\ ~stop_event
    /\ is_healthy' = FALSE
    /\ monPc' = [monPc EXCEPT ![t] = AfterTick(TRUE)]
    /\ UNCHANGED <<now, hvars, dispatchedAt, stop_event, stream_client,
                   managerStats, registered, supPc, reconnect_interval,
                   runningOn, callerPc, closedIdle, monitorCloses, waitCount>>

(* line 198: stop_event.wait(health_check_interval) *)
MonWait(t) ==
    /\ monPc[t] = "wait"
    /\ monPc' = [monPc EXCEPT ![t] = IF stop_event THEN "exit" ELSE "check"]
    /\ UNCHANGED <<now, hvars, dispatchedAt, stop_event, stream_client,
                   is_healthy, managerStats, registered, supPc,
                   reconnect_interval, runningOn, callerPc, closedIdle,
                   monitorCloses, waitCount>>

(* stop(), lines 203-205: no client, a warning is logged *)
StopNoClient_noGuard ==
    /\ callerPc = "idle"
    /\ stream_client = 0
    /\ callerPc' = "stop_warned"
    /\ stop_event' = TRUE
    /\ is_healthy' = FALSE
    /\ UNCHANGED <<now, hvars, dispatchedAt, stream_client, managerStats,
                   registered, supPc, reconnect_interval, runningOn, monPc,
                   closedIdle, monitorCloses, waitCount>>

StopNoClient ==
    /\ callerPc = "idle"
    /\ stream_client = 0
    /\ callerPc' = "stop_warned"
    /\ UNCHANGED <<now, hvars, dispatchedAt, stop_event, stream_client,
                   is_healthy, managerStats, registered, supPc,
                   reconnect_interval, runningOn, monPc, closedIdle,
                   monitorCloses, waitCount>>

(* stop(), line 205: return *)
StopReturn ==
    /\ callerPc = "stop_warned"
    /\ callerPc' = "idle"
    /\ UNCHANGED <<now, hvars, dispatchedAt, stop_event, stream_client,
                   is_healthy, managerStats, registered, supPc,
                   reconnect_interval, runningOn, monPc, closedIdle,
                   monitorCloses, waitCount>>

(* stop(), lines 207-208 *)
StopBegin ==
    /\ callerPc = "idle"
    /\ stream_client # 0
    /\ stop_event' = TRUE
    /\ callerPc' = "stop_close"
    /\ UNCHANGED <<now, hvars, dispatchedAt, stream_client, is_healthy,
                   managerStats, registered, supPc, reconnect_interval,
                   runningOn, monPc, closedIdle, monitorCloses, waitCount>>

(* stop(), lines 210-215 *)
StopClose ==
    /\ callerPc = "stop_close"
    /\ CloseRequest(stream_client)
    /\ callerPc' = "stop_join"
    /\ UNCHANGED <<now, hvars, dispatchedAt, stop_event, stream_client,
                   is_healthy, managerStats, registered, reconnect_interval,
                   runningOn, monPc, monitorCloses, waitCount>>

(* stop(), lines 217-235: each join ends when its thread has ended or after
   5 seconds; then the client is dropped *)
StopFinish ==
    /\ callerPc = "stop_join"
    /\ stream_client' = 0
    /\ is_healthy' = FALSE
    /\ callerPc' = "idle"
    /\ UNCHANGED <<now, hvars, dispatchedAt, stop_event, managerStats,
                   registered, supPc, reconnect_interval, runningOn, monPc,
                   closedIdle, monitorCloses, waitCount>>

(* DingTalkChatbotHandler.process on a frame of the running connection: it
   counts the frame as processed or as an error and nothing else *)
Dispatch ==
    /\ \E t \in Threads : InStartForever(t) /\ runningOn[t] = NStarts
    /\ registered.messages_processed + registered.errors < MaxDispatch
    /\ \E f \in {"messages_processed", "errors"} :
         registered' = Bump(registered, f)
    /\ dispatchedAt' = now
    /\ UNCHANGED <<now, hvars, stop_event, stream_client, is_healthy,
                   managerStats, supPc, reconnect_interval, runningOn, monPc,
                   callerPc, closedIdle, monitorCloses, waitCount>>

(* A handler that records arrivals, as MessageCallbackHandler.process does in
   lines 69-71, takes a frame of the running connection: the health monitor
   reads the time it writes *)
DispatchRecorded ==
    /\ \E t \in Threads : InStartForever(t) /\ runningOn[t] = NStarts
    /\ registered.messages_received < MaxDispatch
    /\ registered' = [registered EXCEPT !.messages_received = @ + 1,
                                        !.last_message_time = now]
    /\ dispatchedAt' = now
    /\ UNCHANGED <<now, hvars, stop_event, stream_client, is_healthy,
                   managerStats, supPc, reconnect_interval, runningOn, monPc,
                   callerPc, closedIdle, monitorCloses, waitCount>>

\* the raw_process calls
RequestStep ==
    \/ \E r \in Reqs : Arrive(r)
    \/ \E r \in Reqs : LockResume(r)
    \/ \E r \in Reqs : HandlerFinish(r)
    \/ \E r \in Reqs : Cancel(r)

NextH ==
    \/ RequestStep
    \/ ResetStats
    \/ AdvanceTime

SupStep(t) ==
    \/ SupCheck(t)
    \/ SupConnect(t)
    \/ TransportClosed(t)
    \/ SupAfterExit(t)
    \/ SupReconnect(t)
    \/ SupBackoff(t)

MonStep(t) ==
    \/ MonCheck(t)
    \/ MonTick(t)
    \/ MonWait(t)

CallerStep ==
    \/ StartFinish
    \/ StopReturn
    \/ StopClose
    \/ StopFinish

\* the manager's calls and threads, and the transport
ThreadStep ==
    \/ FirstStart
    \/ StopNoClient
    \/ StopBegin
    \/ CallerStep
    \/ \E t \in Threads : SupStep(t)
    \/ \E t \in Threads : TransportExit(t)
    \/ \E t \in Threads : MonStep(t)

ManagerStep ==
    \/ ThreadStep
    \/ AdvanceTime

(* get_status, lines 240-257: handler_stats is the handler's get_stats(), {}
   before start() has created the handler; message_rate is messages per
   minute of uptime, kept as a fraction *)
GetStatus_ownCounters ==
    [is_connected |-> is_healthy,
     manager_stats |-> managerStats,
     handler_stats |-> IF NStarts > 0 THEN RegisteredStatsInit ELSE <<>>,
     uptime_seconds |-> managerStats.uptime,
     message_rate |-> [num |-> 0, den |-> 1]]

GetStatus ==
    [is_connected |-> is_healthy,
     manager_stats |-> managerStats,
     handler_stats |-> IF NStarts > 0 THEN registered ELSE <<>>,
     uptime_seconds |-> managerStats.uptime,
     message_rate |->
        IF NStarts > 0 /\ managerStats.uptime > 0
          THEN [num |-> registered.messages_processed * 60,
                den |-> managerStats.uptime]
          ELSE [num |-> 0, den |-> 1]]

\* the manager as start() builds it: the handler is a DingTalkChatbotHandler
NextM ==
    \/ ManagerStep
    \/ Dispatch

\* the manager as start() builds it, with callers that call start() again
NextMS ==
    \/ ThreadStep
    \/ Restart

\* the manager with a handler that records the arrival time of its frames
NextMR ==
    \/ ManagerStep
    \/ DispatchRecorded

\* the same manager when the monitor's close request can raise
NextMX ==
    \/ NextMR
    \/ \E t \in Threads : MonTickRaises(t)

\* the manager together with one request in the handler it dispatches to
NextL ==
    \/ NextMR
    \/ Arrive(1)
    \/ HandlerFinish(1)

Init ==
    /\ now = Epoch
    /\ HInit
    /\ PInit
    /\ MInit

\* one frame, with any envelope, through process()
InitP ==
    /\ now = Epoch
    /\ HInit
    /\ envelope \in Envelopes
    /\ parsed = NotParsed
    /\ context = NoContext
    /\ MInit

NextP ==
    \/ ArriveEnvelope(1)
    \/ HandlerFinish(1)

SpecP == InitP /\ [][NextP]_vars

SpecH == Init /\ [][NextH]_vars

\* The event loop runs a task that can run: a woken waiter takes the lock, and
\* the awaited handler call ends, by wait_for's deadline at the latest.
\* Nothing obliges a frame to arrive or a task to be cancelled.
SpecQ == Init /\ [][RequestStep]_vars

FairSpecQ ==
    /\ SpecQ
    /\ \A r \in Reqs : WF_vars(LockResume(r)) /\ WF_vars(HandlerFinish(r))

SpecM == Init /\ [][NextM]_vars

\* Every thread that can take a step eventually does; a started call of the
\* caller runs to its end; a client asked to close ends its start_forever.
\* Nothing obliges the caller to call, the transport to fail or time to pass.
FairSpecM ==
    /\ SpecM
    /\ \A t \in Threads : WF_vars(SupStep(t)) /\ WF_vars(MonStep(t))
    /\ WF_vars(CallerStep)

SpecMS == Init /\ [][NextMS]_vars

SpecMR == Init /\ [][NextMR]_vars

SpecMX == Init /\ [][NextMX]_vars

SpecL == Init /\ [][NextL]_vars

FairSpecMR ==
    /\ SpecMR
    /\ \A t \in Threads : WF_vars(SupStep(t)) /\ WF_vars(MonStep(t))
    /\ WF_vars(CallerStep)

(* ------------------------------ claims --------------------------------- *)
Handling == {r \in Reqs : reqPc[r] = "handling"}

Waiting == {r \in Reqs : reqPc[r] = "waiting"}

AckedWith(r, body) ==
    /\ reqPc[r] = "done"
    /\ Len(ack[r]) = 1
    /\ ack[r][1].response.body = body

\* C1: at most one request is inside the locked section, where the external
\* handler runs, in every reachable state of the handler.
C1_SingleFlight == Cardinality(Handling) <= 1

\* C1 witness: one request is in the handler while two others wait for the lock.
C1_Witness == Cardinality(Handling) = 1 /\ Cardinality(Waiting) >= 2

\* C2: a raw_process call that has returned has returned exactly one
\* acknowledgement, and a call that has not returned has returned none.
C2_ExactlyOneAck ==
    \A r \in Reqs : Len(ack[r]) = IF reqPc[r] = "done" THEN 1 ELSE 0

\* C2 witness: a frame that failed to parse, a frame whose handler timed out
\* and a frame whose agent raised have each been acknowledged.
C2_Witness ==
    \E r1, r2, r3 \in Reqs :
        /\ AckedWith(r1, "Parse error")
        /\ AckedWith(r2, "Processing timeout")
        /\ AckedWith(r3, "KeyError")

\* C3: whenever no request is inside the locked section, processing_lock is
\* free: no exit path of the section leaves it held.
C3_LockReleased == (Handling = {}) => ~lockHeld

\* C3 witness: a request has timed out and been acknowledged, the lock is
\* free and another request is still waiting for it.
C3_Witness ==
    /\ \E r \in Reqs : AckedWith(r, "Processing timeout")
    /\ Waiting # {}
    /\ ~lockHeld

Exited(t) == supPc[t] \in {"returned", "raised"}

\* C4: without a stop signal, every return or exception of start_forever is
\* eventually followed by another call of start_forever.
C4_AlwaysReconnects ==
    \A t \in Threads : Exited(t) ~> (InStartForever(t) \/ stop_event)

\* C4 witness: start_forever is running again after MaxFailures reconnections.
C4_Witness ==
    \E t \in Threads :
        /\ InStartForever(t)
        /\ managerStats.reconnections >= MaxFailures
        /\ ~stop_event

RECURSIVE Pow2(_)
Pow2(n) == IF n <= 0 THEN 1 ELSE 2 * Pow2(n - 1)

\* C5: the k-th backoff wait of a supervisor loop lasts min(5 * 2^(k-1), 60)
\* seconds, never below the initial interval and never above the cap.
C5_BackoffSequence ==
    \A t \in Threads :
        supPc[t] = "backoff" =>
            /\ reconnect_interval[t] = Min(5 * Pow2(waitCount[t] - 1), 60)
            /\ reconnect_interval[t] >= 5
            /\ reconnect_interval[t] <= 60

\* C5 witness: the sixth wait is entered, with 60 seconds.
C5_Witness ==
    \E t \in Threads :
        supPc[t] = "backoff" /\ waitCount[t] = 6 /\ reconnect_interval[t] = 60

\* C6: when start_forever has returned or raised and the stop signal is set,
\* the loop's next step is its exit, with reconnections not incremented; an
\* exited loop never leaves its exit (no wait, no further start_forever).
C6_StopAtExit ==
    [][\A t \in Threads :
         /\ (Exited(t) /\ stop_event /\ supPc'[t] # supPc[t]) =>
               /\ supPc'[t] = "exit"
               /\ managerStats'.reconnections = managerStats.reconnections
               /\ waitCount'[t] = waitCount[t]
         /\ supPc[t] = "exit" => supPc'[t] = "exit"]_vars

\* C6 witness: the loop has exited after its first start_forever with no
\* backoff wait, while stop() is still joining and is_healthy was not cleared.
C6_Witness ==
    \E t \in Threads :
        /\ supPc[t] = "exit"
        /\ managerStats.connection_attempts = 1
        /\ managerStats.reconnections = 0
        /\ is_healthy
        /\ callerPc = "stop_join"

\* C7: once the stop signal is set during a backoff wait, the loop leaves the
\* wait only to its exit, with the interval not doubled, and it does leave.
C7_StopInterruptsBackoff ==
    /\ [][\A t \in Threads :
            (supPc[t] = "backoff" /\ stop_event /\ supPc'[t] # "backoff") =>
                /\ supPc'[t] = "exit"
                /\ reconnect_interval'[t] = reconnect_interval[t]]_vars
    /\ \A t \in Threads :
         (supPc[t] = "backoff" /\ stop_event) ~> (supPc[t] = "exit")

\* C7 witness: the loop has exited after entering its first wait, with the
\* interval still at its initial value.
C7_Witness ==
    \E t \in Threads :
        /\ supPc[t] = "exit"
        /\ waitCount[t] = 1
        /\ reconnect_interval[t] = InitialReconnectInterval

ManagerState ==
    <<stop_event, stream_client, is_healthy, managerStats, registered, supPc,
      reconnect_interval, runningOn, monPc, closedIdle, monitorCloses>>

\* C8: a stop() that finds no client changes nothing of the manager: not the
\* stop signal, the threads, the stats or is_healthy.
C8_StopWithoutClientIsNoop ==
    [][((callerPc = "idle" /\ callerPc' = "stop_warned")
          \/ (callerPc = "stop_warned" /\ callerPc' = "idle"))
         => UNCHANGED ManagerState]_vars

\* C8 witness: a second stop() has found no client after a first stop() that
\* stopped a started manager.
C8_Witness == callerPc = "stop_warned" /\ stop_event /\ NStarts > 0

C10_QuietBeforeFirstMessage ==
    [][\A t \in Threads :
         (monPc[t] = "tick" /\ monPc'[t] = "wait"
            /\ registered.last_message_time = 0) =>
              /\ monitorCloses' = monitorCloses
              /\ is_healthy' = is_healthy
              /\ UNCHANGED <<supPc, closedIdle>>]_vars

\* C10 witness: a tick has run more than connection_timeout after start, with
\* frames dispatched and last_message_time still 0, and the manager is healthy.
C10_Witness ==
    \E t \in Threads :
        /\ monPc[t] = "wait"
        /\ registered.last_message_time = 0
        /\ registered.messages_processed > 0
        /\ managerStats.uptime > ConnectionTimeout
        /\ is_healthy

\* C11: a health-monitor tick that runs more than connection_timeout after the
\* registered handler last took a frame, with a client and no stop signal,
\* sets is_healthy to false and issues a close request.
C11_StaleTickCloses ==
    [][\A t \in Threads :
         (/\ monPc[t] = "tick" /\ monPc'[t] = "wait"
          /\ dispatchedAt > 0
          /\ now - dispatchedAt > ConnectionTimeout
          /\ stream_client # 0 /\ ~stop_event) =>
              /\ ~is_healthy'
              /\ monitorCloses' # monitorCloses]_vars

\* C12: a close request of the health monitor puts every start_forever running
\* on the client on its way out; with the stop signal clear the loop then
\* reaches its backoff wait, entering it counts one reconnection, and the wait
\* is followed by another start_forever.
C12_MonitorCloseReconnects ==
    /\ [][monitorCloses' # monitorCloses =>
             \A t \in Threads :
                 (supPc[t] = "running" /\ runningOn[t] = stream_client) =>
                     supPc'[t] = "closing"]_vars
    /\ \A t \in Threads :
         (supPc[t] = "closing" /\ ~stop_event)
             ~> (stop_event \/ supPc[t] = "backoff")
    /\ [][\A t \in Threads :
             (supPc[t] # "backoff" /\ supPc'[t] = "backoff") =>
                 /\ managerStats'.reconnections = managerStats.reconnections + 1
                 /\ waitCount'[t] = waitCount[t] + 1]_vars
    /\ \A t \in Threads :
         supPc[t] = "backoff" ~> (stop_event \/ InStartForever(t))

\* C12 witness: the monitor has closed a stale connection once, and the
\* second start_forever is running after one reconnection.
C12_Witness ==
    \E t \in Threads :
        /\ supPc[t] = "running"
        /\ monitorCloses = 1
        /\ ~is_healthy
        /\ ~stop_event
        /\ managerStats.connection_attempts = 2
        /\ managerStats.reconnections = 1
        /\ registered.last_message_time > 0

Finishes(r) == reqPc[r] = "handling" /\ reqPc'[r] = "done"

\* C13: a request whose handler timed out is acknowledged SYSTEM_EXCEPTION with
\* "Processing timeout"; that step adds exactly 1 to timeouts, leaves every
\* other stat as it was and frees the lock; no other step changes timeouts
\* upwards.
C13_TimeoutOutcome ==
    [][\A r \in Reqs :
         (Finishes(r) /\ (ack'[r][1].response.body = "Processing timeout"
                            \/ handlerStats'.timeouts > handlerStats.timeouts)) =>
             /\ ack'[r][1].response = CreateErrorResponse("Processing timeout")
             /\ ack'[r][1].code = STATUS_SYSTEM_EXCEPTION
             /\ handlerStats' = Bump(handlerStats, "timeouts")
             /\ ~lockHeld']_vars

\* C13 witness: a timeout has been acknowledged, counted once and nothing else
\* counted, and the next request is already in the handler.
C13_Witness ==
    /\ \E r \in Reqs : AckedWith(r, "Processing timeout")
    /\ handlerStats.timeouts = 1
    /\ handlerStats.errors = 0
    /\ handlerStats.messages_processed = 0
    /\ handlerStats.messages_received = 2
    /\ Handling # {}

\* C14: a request whose agent processing failed with an error other than a
\* timeout is acknowledged SYSTEM_EXCEPTION, and that step adds 1 to errors
\* and leaves messages_processed as it was.
C14_HandlerErrorReported ==
    [][\A r \in Reqs :
         (Finishes(r) /\ ack'[r][1].response.body = "content_error_dict") =>
             /\ ack'[r][1].code = STATUS_SYSTEM_EXCEPTION
             /\ handlerStats'.errors = handlerStats.errors + 1
             /\ handlerStats'.messages_processed =
                    handlerStats.messages_processed]_vars

SuccessBodies == {"content", "text", "tool_result", "empty_message"}

\* C15: the step that acknowledges a successfully completed handler
\* invocation adds exactly 1 to messages_processed; a step that acknowledges
\* an empty message, a timeout, a handler error or a parse error leaves
\* messages_processed as it was.
C15_ProcessedCountsSuccesses ==
    [][\A r \in Reqs :
         (reqPc[r] # "done" /\ reqPc'[r] = "done") =>
             handlerStats'.messages_processed =
                 handlerStats.messages_processed +
                     (IF Finishes(r) /\ ack'[r][1].response.body \in SuccessBodies
                        THEN 1 ELSE 0)]_vars

\* C16: a frame whose input is empty is acknowledged at arrival with the OK
\* empty-message response; the step changes no stat and neither takes nor
\* queues for the lock, whoever holds it.
C16_EmptyShortCircuit ==
    [][\A r \in Reqs :
         (reqPc[r] = "new" /\ reqPc'[r] # "new"
            /\ frame'[r].kind \in {"empty", "unparsable"}) =>
             /\ reqPc'[r] = "done"
             /\ ack'[r] = <<RawProcessAck(frame'[r], CreateEmptyResponse)>>
             /\ ack'[r][1].code = STATUS_OK
             /\ UNCHANGED <<handlerStats, lockHeld, lockWaiters>>]_vars

\* C16 witness: an empty frame has been acknowledged while another request
\* holds the lock and a third waits for it, with two messages counted.
C16_Witness ==
    \E r \in Reqs :
        /\ frame[r].kind = "empty"
        /\ AckedWith(r, "empty_message")
        /\ lockHeld /\ Handling # {} /\ Waiting # {}
        /\ handlerStats.messages_received = 2

\* C17: the step in which a non-empty frame arrives adds 1 to
\* messages_received and sets last_message_time to the current time, whether
\* the request takes the lock at once or starts to wait for it.
C17_ArrivalCountedBeforeLock ==
    [][\A r \in Reqs :
         (reqPc[r] = "new" /\ reqPc'[r] \in {"waiting", "handling"}) =>
             /\ handlerStats'.messages_received =
                    handlerStats.messages_received + 1
             /\ handlerStats'.last_message_time = now]_vars

\* C17 witness: one request holds the lock, a second arrived later and waits,
\* and the stats already show both arrivals and the time of the second.
C17_Witness ==
    /\ Cardinality(Handling) = 1
    /\ Cardinality(Waiting) = 1
    /\ handlerStats.messages_received = 2
    /\ handlerStats.messages_processed = 0
    /\ handlerStats.last_message_time = now
    /\ now > Epoch

\* C18: a non-empty frame that arrives while the lock is held starts to wait;
\* a waiting request leaves the wait only into the handler (or by its own
\* cancellation), and it is eventually acknowledged unless it is cancelled.
C18_WaiterEventuallyServed ==
    /\ [][\A r \in Reqs :
             /\ (reqPc[r] = "new" /\ reqPc'[r] # "new"
                    /\ frame'[r].kind = "text" /\ lockHeld)
                   => (reqPc'[r] = "waiting" /\ Len(ack'[r]) = 0)
             /\ (reqPc[r] = "waiting")
                   => reqPc'[r] \in {"waiting", "handling", "cancelled"}]_vars
    /\ \A r \in Reqs :
         (reqPc[r] = "waiting") ~> (reqPc[r] \in {"done", "cancelled"})

\* C18 witness: the request that held the lock has been acknowledged, a
\* request that had to wait is in the handler and another still waits.
C18_Witness ==
    /\ Len(lockOrder) = 2
    /\ reqPc[lockOrder[1]] = "handling"
    /\ reqPc[lockOrder[2]] = "waiting"
    /\ \E r \in Reqs : AckedWith(r, "content")

\* C19: a request enters the handler from the queue only when it is the
\* oldest unfinished request that had to wait and no request is in the
\* handler; a request enters without waiting only when nobody waits.
C19_FifoOrder ==
    [][\A r \in Reqs :
         /\ (reqPc[r] = "waiting" /\ reqPc'[r] = "handling") =>
                (r = lockOrder[1] /\ Handling = {})
         /\ (reqPc[r] = "new" /\ reqPc'[r] = "handling") =>
                (lockOrder = <<>> /\ Handling = {})]_vars

\* C19 witness: the two requests that asked for the lock first have been
\* acknowledged and the one that queued last is now in the handler.
C19_Witness ==
    /\ Len(lockOrder) = 1
    /\ reqPc[lockOrder[1]] = "handling"
    /\ Cardinality({r \in Reqs : AckedWith(r, "tool_result")}) = 2
    /\ handlerStats.messages_received = 3

\* C20: no step lowers last_message_time, and a step that lowers a counter
\* (reset_stats) leaves last_message_time as it was.
C20_LastMessageTimeMonotone ==
    [][/\ handlerStats'.last_message_time >= handlerStats.last_message_time
       /\ (\/ handlerStats'.messages_received < handlerStats.messages_received
           \/ handlerStats'.messages_processed < handlerStats.messages_processed
           \/ handlerStats'.errors < handlerStats.errors
           \/ handlerStats'.timeouts < handlerStats.timeouts) =>
              handlerStats'.last_message_time =
                  handlerStats.last_message_time]_vars

\* C20 witness: after a reset the counters are zero and last_message_time
\* still holds the arrival time of the last non-empty frame, later than the
\* construction time.
C20_Witness ==
    /\ handlerStats.messages_received = 0
    /\ handlerStats.last_message_time > Epoch
    /\ handlerStats.last_message_time = now
    /\ \E r \in Reqs : AckedWith(r, "content")

\* C21: at most one start_forever call is in progress on the manager.
C21_OneConnectionAtATime ==
    Cardinality({t \in Threads : InStartForever(t)}) <= 1

\* C22: every acknowledgement raw_process has returned carries its frame's
\* message_id and the content type application/json; its code is OK exactly
\* when the response inside has status 200 "OK", and SYSTEM_EXCEPTION exactly
\* when it has status 500 "Internal Server Error" and an error field.
C22_AckEnvelope ==
    \A r \in Reqs : \A i \in 1 .. Len(ack[r]) :
        LET a == ack[r][i] IN
        /\ a.message_id = frame[r].message_id
        /\ a.content_type = "application/json"
        /\ a.code \in {STATUS_OK, STATUS_SYSTEM_EXCEPTION}
        /\ (a.code = STATUS_OK) <=>
              (a.response.status = 200 /\ a.response.reason = "OK")
        /\ (a.code = STATUS_SYSTEM_EXCEPTION) <=>
              (/\ a.response.status = 500
               /\ a.response.reason = "Internal Server Error"
               /\ "error" \in a.response.body_keys)

\* C22 witness: three frames with different message_ids have been
\* acknowledged: an empty one, one whose handler succeeded and one whose
\* handler timed out.
C22_Witness ==
    \E r1, r2, r3 \in Reqs :
        /\ AckedWith(r1, "empty_message") /\ ack[r1][1].message_id = r1
        /\ AckedWith(r2, "tool_result") /\ ack[r2][1].message_id = r2
        /\ AckedWith(r3, "Processing timeout") /\ ack[r3][1].message_id = r3

\* C23: an exception raised inside a health-monitor tick does not end the
\* monitor loop: a tick, raising or not, is followed by the interval wait, the
\* wait by the loop test and the test by the next tick unless the stop signal
\* is set, and the loop is left only when the stop signal is set.
C23_MonitorSurvivesExceptions ==
    [][\A t \in Threads :
          /\ (monPc[t] = "tick" /\ monPc'[t] # "tick") => monPc'[t] = "wait"
          /\ (monPc[t] = "wait" /\ monPc'[t] # "wait" /\ ~stop_event)
                 => monPc'[t] = "check"
          /\ (monPc[t] = "check" /\ monPc'[t] # "check" /\ ~stop_event)
                 => monPc'[t] = "tick"
          /\ (monPc[t] # "exit" /\ monPc'[t] = "exit") => stop_event]_vars

\* a tick whose close request raised has run (unhealthy, yet nothing was
\* closed and the first connection is still running) and the monitor is at
\* its next tick
C23_Witness ==
    \E t \in Threads :
        /\ monPc[t] = "tick"
        /\ supPc[t] = "running"
        /\ callerPc = "idle"
        /\ ~stop_event
        /\ ~is_healthy
        /\ monitorCloses = 0
        /\ managerStats.connection_attempts = 1
        /\ IsStale(registered.last_message_time)
        /\ registered.last_message_time > 0

\* the characters of s are all spaces
Blank(s) == \A i \in 1 .. Len(s) : s[i] = " "

\* t is s without its leading and trailing spaces
TrimOf(s, t) ==
    /\ \E i \in 0 .. Len(s) : \E j \in i .. Len(s) :
          /\ t = SubSeq(s, i + 1, j)
          /\ Blank(SubSeq(s, 1, i))
          /\ Blank(SubSeq(s, j + 1, Len(s)))
    /\ t # <<>> => t[1] # " " /\ t[Len(t)] # " "

\* the envelope is one _parse_message_content accepts: a JSON object whose
\* msgType is a JSON-encoded object and whose input, when there, is a string
WellFormed(e) ==
    /\ e.form \in {"json_str", "dict"}
    /\ e.msgType \in {"no_key", "text"}
    /\ e.input.state # "null"

\* C24: on a well-formed envelope the parsed text is the input without its
\* leading and trailing spaces; a missing conversation_type is "1", a missing
\* sender_nick is "Unknown User", every other missing string field is "";
\* fields that are there are kept; and the MessageContext is a group chat
\* exactly when the envelope's conversation_type is there and is not "1".
C24_ParseDefaults ==
    (frame[1] # NoFrame /\ WellFormed(envelope)) =>
        /\ parsed.ok
        /\ TrimOf(envelope.input.val, parsed.text)
        /\ LET m == parsed.metadata
               field(f, d) == IF f = Missing THEN d ELSE f[1] IN
             /\ m.conversation_type = field(envelope.conversation_type, "1")
             /\ m.sender_nick = field(envelope.sender_nick, "Unknown User")
             /\ m.sender_id = field(envelope.others["sender_id"], "")
             /\ m.conversation_id =
                    field(envelope.others["conversation_id"], "")
             /\ m.group_name =
                    field(envelope.others["conversation_title"], "")
             /\ m.conversation_token =
                    field(envelope.others["conversationToken"], "")
             /\ m.sender_union_id =
                    field(envelope.others["sender_union_id"], "")
        /\ context.built =>
             /\ context.content = parsed.text
             /\ context.is_group_chat
                  <=> envelope.conversation_type \notin {Missing, <<"1">>}

\* the spec's example with spaces around the input and no sender_nick: text
\* "h", group chat because conversation_type is "copilot", default nick
C24_Witness ==
    /\ frame[1] # NoFrame
    /\ envelope.input.val = <<" ", "h", " ">>
    /\ parsed.ok /\ parsed.text = <<"h">>
    /\ envelope.conversation_type = <<"copilot">>
    /\ context.built /\ context.is_group_chat
    /\ envelope.sender_nick = Missing
    /\ context.user_name = "Unknown User"
    /\ envelope.others["sender_id"] = Missing
    /\ context.user_id = ""

\* the acknowledgement of an envelope that is not processed
RecoveredAck(a) ==
    \/ a.code = STATUS_OK /\ a.response.body = "empty_message"
    \/ a.code = STATUS_SYSTEM_EXCEPTION /\ "error" \in a.response.body_keys

\* something about the envelope is malformed
Malformed(e) ==
    \/ e.form \in {"bad_frame", "bad_str"}
    \/ e.msgType \in {"not_json", "scalar"}
    \/ e.input.state = "null"
    \/ e.scenarioContext \in {"not_json", "scalar"}

\* a field of the wire envelope is missing
HasMissingField(e) ==
    \/ e.msgType = "absent"
    \/ e.input.state = "absent"
    \/ e.sender_nick = Missing
    \/ e.conversation_type = Missing
    \/ \E f \in OtherFields : e.others[f] = Missing

\* C25 as stated: a malformed envelope, or one with missing fields, is
\* answered once, with the OK empty-content acknowledgement or with a
\* SYSTEM_EXCEPTION acknowledgement that has an error field, and the lock is
\* not left held.
C25_AsStated ==
    (reqPc[1] = "done" /\ (Malformed(envelope) \/ HasMissingField(envelope)))
        => /\ Len(ack[1]) = 1
           /\ RecoveredAck(ack[1][1])
           /\ ~lockHeld

\* the envelope cannot be parsed, or has no text once parsed
Unusable(e) ==
    \/ e.form \in {"bad_frame", "bad_str"}
    \/ e.msgType \in {"absent", "not_json", "scalar"}
    \/ e.input.state \in {"absent", "null"}
    \/ Blank(e.input.val)

\* C25: an envelope that cannot be parsed or has no text never reaches the
\* handler: process returns at once, with SYSTEM_EXCEPTION and an error
\* field when the frame cannot be decoded and with the OK empty-content
\* acknowledgement otherwise, and the lock is not taken; and whatever the
\* envelope, a finished request has exactly one acknowledgement and does not
\* leave the lock held.
C25_ParseErrorsRecovered ==
    /\ (frame[1] # NoFrame /\ Unusable(envelope)) =>
          /\ reqPc[1] = "done"
          /\ Len(ack[1]) = 1
          /\ RecoveredAck(ack[1][1])
          /\ ack[1][1].code = STATUS_SYSTEM_EXCEPTION
                <=> envelope.form = "bad_frame"
          /\ ~lockHeld
    /\ reqPc[1] = "done" => Len(ack[1]) = 1 /\ ~lockHeld

\* an envelope whose msgType is not JSON has been answered with the OK
\* empty-content acknowledgement
C25_Witness ==
    /\ reqPc[1] = "done"
    /\ envelope.form = "json_str"
    /\ envelope.msgType = "not_json"
    /\ envelope.input.val = <<"h">>
    /\ ack[1][1].code = STATUS_OK
    /\ ack[1][1].response.body = "empty_message"
    /\ ~lockHeld

\* the same envelope with a scenarioContext that parses
WithContext(e) == [e EXCEPT !.scenarioContext = "object"]

\* C29: an envelope whose scenarioContext is absent or is not valid JSON is
\* parsed to the same text and the same sender and conversation metadata as
\* the envelope with a scenarioContext that parses, and goes the same way
\* (to the handler when it has text); only request_id differs: it is unset.
C29_ScenarioContextTolerated ==
    (frame[1] # NoFrame /\ envelope.scenarioContext \in {"absent", "not_json"})
        => LET q == ParseMessageContent(WithContext(envelope)) IN
             /\ frame[1].kind = KindOf(WithContext(envelope))
             /\ frame[1].kind # "bad_frame" =>
                  /\ parsed.ok = q.ok
                  /\ parsed.text = q.text
                  /\ parsed.ok =>
                       /\ parsed.metadata.request_id = None
                       /\ [q.metadata EXCEPT !.request_id = None]
                            = parsed.metadata
             /\ (Unusable(envelope) \/ reqPc[1] \in {"handling", "done"})

\* an envelope with text, no orgId and a scenarioContext that is not JSON is
\* with the handler, its request_id unset
C29_Witness ==
    /\ reqPc[1] = "handling"
    /\ envelope.scenarioContext = "not_json"
    /\ envelope.orgId = Missing
    /\ parsed.ok /\ parsed.text = <<"h">>
    /\ parsed.metadata.request_id = None
    /\ parsed.metadata.sender_nick = "zhangdaping"
    /\ ParseMessageContent(WithContext(envelope)).metadata.request_id = "req1"

\* the acknowledgements of results that are mappings with the key tool_name:
\* the one _create_tool_response builds, and the one process() returns when
\* _create_tool_response raises KeyError
FromToolResult(a) == a.response.body \in {"tool_result", "KeyError"}

\* the acknowledgements of the other non-empty results
FromPlainResult(a) ==
    a.response.body \in {"text", "content", "content_error_dict"}

\* C30: the acknowledgement of a result that is a mapping with the key
\* tool_name is OK and its body has exactly the keys tool_name, tool_args,
\* tool_output and text; the acknowledgement of any other non-empty result is
\* OK and its body has the single key text or the single key content.
C30_ResultShapes ==
    \A r \in Reqs : \A i \in 1 .. Len(ack[r]) :
        LET a == ack[r][i] IN
          /\ FromToolResult(a) =>
                /\ a.code = STATUS_OK
                /\ a.response.body_keys =
                      {"tool_name", "tool_args", "tool_output", "text"}
          /\ FromPlainResult(a) =>
                /\ a.code = STATUS_OK
                /\ a.response.body_keys \in {{"text"}, {"content"}}

SupervisorStepOf(t) ==
    /\ supPc[t] \in {"check", "connecting", "returned", "raised", "recheck",
                     "backoff"}
    /\ supPc'[t] # supPc[t]

\* a health-monitor tick of thread t
MonitorTickOf(t) == monPc[t] = "tick" /\ monPc'[t] # "tick"

\* C27 as stated: every field of the connection statistics is written only
\* by the supervisor loop; the health monitor, start() and stop(), status
\* queries and the message handler modify none of them.
C27_AsStated ==
    [][managerStats' # managerStats => \E t \in Threads : SupervisorStepOf(t)]_vars

\* C27: each field of the connection statistics has one writer:
\* connection_attempts and reconnections are written only by the supervisor
\* loop, last_connection_time only by start() on the caller's thread, uptime
\* only by a health-monitor tick, successful_connections by nothing; stop()
\* and the message handler modify none of them.
C27_OneWriterPerField ==
    [][/\ (\/ managerStats'.connection_attempts
                 # managerStats.connection_attempts
            \/ managerStats'.reconnections # managerStats.reconnections)
           => \E t \in Threads : SupervisorStepOf(t)
       /\ managerStats'.last_connection_time
             # managerStats.last_connection_time
           => callerPc = "start_stats" /\ callerPc' = "idle"
       /\ managerStats'.uptime # managerStats.uptime
           => \E t \in Threads : MonitorTickOf(t)
       /\ managerStats'.successful_connections = 0]_vars

\* all three writers have written: two attempts and a reconnection by the
\* supervisor, the connection time by start(), the uptime by the monitor
C27_Witness ==
    /\ managerStats.connection_attempts = 2
    /\ managerStats.reconnections = 1
    /\ managerStats.last_connection_time = Epoch
    /\ managerStats.uptime = TimeStep
    /\ managerStats.successful_connections = 0
    /\ stop_event

\* C28: messages_processed, errors and timeouts change only in a step of the
\* request that holds processing_lock; a step of anything else changes at
\* most messages_received and last_message_time.
C28_CountersUnderLock ==
    [][(\/ handlerStats'.messages_processed # handlerStats.messages_processed
        \/ handlerStats'.errors # handlerStats.errors
        \/ handlerStats'.timeouts # handlerStats.timeouts)
          => /\ lockHeld
             /\ \E r \in Reqs : reqPc[r] = "handling" /\ reqPc'[r] # "handling"]_vars

\* C31: the health monitor never takes or waits for processing_lock: no step
\* of the monitor changes the lock, its queue or a request, and a monitor
\* that has not ended can take its next step whether or not a request holds
\* the lock (the forced close within the bound on connection attempts).
C31_MonitorIgnoresLock ==
    /\ [][\A t \in Threads :
             monPc'[t] # monPc[t] => UNCHANGED <<lockHeld, lockWaiters, reqPc>>]_vars
    /\ [](\A t \in Threads :
             (/\ monPc[t] \in {"check", "tick", "wait"}
              /\ managerStats.connection_attempts <= MaxFailures)
                 => ENABLED MonStep(t))

\* a request arrived, took the lock and is still in the handler; after the
\* timeout a tick has found the connection stale and issued the close
C31_Witness ==
    \E t \in Threads :
        /\ lockHeld /\ reqPc[1] = "handling"
        /\ handlerStats.last_message_time = Epoch
        /\ now = Epoch + TimeStep
        /\ monitorCloses = 1
        /\ ~is_healthy
        /\ supPc[t] = "closing"
        /\ monPc[t] = "wait"

\* request r has been acknowledged with the timeout error
TimedOut(r) ==
    /\ reqPc[r] = "done"
    /\ ack[r] # <<>>
    /\ ack[r][1].response.body = "Processing timeout"

\* a step in which request r leaves the locked section
LeavesSection(r) == reqPc[r] = "handling" /\ reqPc'[r] # "handling"

\* C32: the step that acknowledges a timeout frees the lock, and after it
\* nothing more comes of that request: it stays done with its one
\* acknowledgement, every later increase of messages_processed and every
\* later release of the lock is the step of another request leaving the
\* locked section; and whoever holds the lock holds it alone.
C32_TimedOutWorkIsInert ==
    /\ [][\A r \in Reqs :
             /\ (LeavesSection(r) /\ TimedOut(r)') => (lockHeld /\ ~lockHeld')
             /\ TimedOut(r) =>
                  /\ reqPc'[r] = "done"
                  /\ ack'[r] = ack[r]
                  /\ handlerStats'.messages_processed
                        > handlerStats.messages_processed
                       => \E r2 \in Reqs \ {r} : LeavesSection(r2)
                  /\ (lockHeld /\ ~lockHeld')
                       => \E r2 \in Reqs \ {r} : LeavesSection(r2)]_vars
    /\ [](lockHeld => Cardinality(Handling) = 1)

\* the first request timed out, the one that waited behind it was then
\* processed, and a third holds the lock now
C32_Witness ==
    \E r1, r2, r3 \in Reqs :
        /\ TimedOut(r1)
        /\ AckedWith(r2, "content")
        /\ reqPc[r3] = "handling"
        /\ lockHeld
        /\ handlerStats.timeouts = 1
        /\ handlerStats.messages_processed = 1
        /\ handlerStats.messages_received = 3

\* the connection is stale: a message has been seen and none within the timeout
Stale ==
    /\ registered.last_message_time > 0
    /\ now - registered.last_message_time > ConnectionTimeout

\* C33: a health-monitor tick, a forced close included, leaves
\* last_message_time as it was; a stale connection stays stale for as long as
\* last_message_time is not written; and every tick that finds the connection
\* stale sets is_healthy to false and, unless the manager has been stopped,
\* issues a close request, also when earlier ticks have already issued one.
C33_StaleUntilNextMessage ==
    [][/\ \A t \in Threads :
            MonitorTickOf(t) =>
                /\ registered' = registered
                /\ Stale =>
                     /\ ~is_healthy'
                     /\ (stream_client # 0 /\ ~stop_event)
                          => monitorCloses' # monitorCloses
       /\ (Stale /\ registered'.last_message_time
                      = registered.last_message_time) => Stale']_vars

\* with the one message long past, a second close request has been issued
\* after the reconnection that followed the first
C33_Witness ==
    \E t \in Threads :
        /\ supPc[t] = "closing"
        /\ ~stop_event /\ callerPc = "idle"
        /\ monitorCloses = 0
        /\ managerStats.connection_attempts = 2
        /\ managerStats.reconnections = 1
        /\ registered.last_message_time = Epoch
        /\ registered.messages_received = 1
        /\ ~is_healthy

\* C34: once start() has registered a handler, the status query reports that
\* handler's messages_processed and last_message_time and the supervisor's
\* connection_attempts and reconnections as they are at the time of the query.
C34_StatusMatchesCounters ==
    NStarts > 0 =>
        /\ GetStatus.handler_stats.messages_processed
              = registered.messages_processed
        /\ GetStatus.handler_stats.last_message_time
              = registered.last_message_time
        /\ GetStatus.manager_stats.connection_attempts
              = managerStats.connection_attempts
        /\ GetStatus.manager_stats.reconnections = managerStats.reconnections

\* a message has been processed and the supervisor has reconnected once: the
\* query reports 1 message, 2 attempts and 1 reconnection
C34_Witness ==
    /\ registered.messages_processed = 1
    /\ managerStats.connection_attempts = 2
    /\ managerStats.reconnections = 1
    /\ GetStatus.handler_stats.messages_processed = 1
    /\ GetStatus.manager_stats.connection_attempts = 2
    /\ GetStatus.manager_stats.reconnections = 1

\* thread t calls start_forever in this step
Invokes(t) ==
    /\ supPc[t] = "connecting"
    /\ supPc'[t] \in {"running", "returned"}

\* thread t enters the backoff wait in this step
EntersBackoff(t) == supPc[t] # "backoff" /\ supPc'[t] = "backoff"

\* C35: connection_attempts goes up by exactly 1 in each step that calls
\* start_forever and changes in no step outside line 124; reconnections goes
\* up by exactly 1 in each step that enters the backoff wait and changes in
\* no other step; and reconnections <= connection_attempts <=
\* reconnections + 1 in every state of a manager started once.
C35_AttemptsAndReconnections ==
    /\ [][\A t \in Threads :
             /\ Invokes(t) =>
                  managerStats'.connection_attempts
                    = managerStats.connection_attempts + 1
             /\ EntersBackoff(t) =>
                  managerStats'.reconnections
                    = managerStats.reconnections + 1]_vars
    /\ [][(managerStats'.connection_attempts
             # managerStats.connection_attempts) =>
              /\ managerStats'.connection_attempts
                   = managerStats.connection_attempts + 1
              /\ \E t \in Threads :
                   supPc[t] = "connecting" /\ supPc'[t] # "connecting"]_vars
    /\ [][(managerStats'.reconnections # managerStats.reconnections) =>
              \E t \in Threads : EntersBackoff(t)]_vars
    /\ [](/\ managerStats.reconnections <= managerStats.connection_attempts
          /\ managerStats.connection_attempts
                <= managerStats.reconnections + 1
          /\ \A t \in Threads :
                supPc[t] # "none" => managerStats.reconnections = waitCount[t])

\* the third connection is running after two backoff waits
C35_Witness ==
    \E t \in Threads :
        /\ supPc[t] = "running"
        /\ managerStats.connection_attempts = 3
        /\ managerStats.reconnections = 2
        /\ waitCount[t] = 2

\* the envelope is a JSON object whose input is a string with text in it
HasText(e) ==
    /\ e.form \in {"json_str", "dict"}
    /\ e.input.state = "str"
    /\ ~Blank(e.input.val)

\* C36: an envelope whose input is non-empty after trimming is handed to the
\* external handler, exactly once, whatever msgType, scenarioContext and the
\* sender and conversation fields contain or omit: the request enters the
\* locked section, and is acknowledged once when the handler call has ended.
C36_TextAlwaysHandled ==
    (frame[1] # NoFrame /\ HasText(envelope)) =>
        /\ frame[1].kind = "text"
        /\ context.built
        /\ reqPc[1] \in {"handling", "done"}
        /\ reqPc[1] = "done" => Len(ack[1]) = 1

\* C37: the backoff interval of a running supervisor loop never decreases,
\* whatever happened on the connections before, and the wait entered as the
\* k-th reconnection is counted lasts min(5 * 2^(k-1), 60) seconds.
C37_BackoffNeverResets ==
    [][\A t \in Threads :
          /\ supPc[t] # "none" => reconnect_interval'[t] >= reconnect_interval[t]
          /\ EntersBackoff(t) =>
               reconnect_interval'[t]
                 = Min(InitialReconnectInterval
                         * Pow2(managerStats'.reconnections - 1),
                       MaxReconnectInterval)]_vars

\* the second wait, of 10 seconds, is entered after a connection that was up
\* a clock step after start() and delivered a message then
C37_Witness ==
    \E t \in Threads :
        /\ supPc[t] = "backoff"
        /\ managerStats.reconnections = 2
        /\ reconnect_interval[t] = 2 * InitialReconnectInterval
        /\ managerStats.last_connection_time = Epoch
        /\ dispatchedAt = Epoch + TimeStep
        /\ registered.messages_processed = 1

\* the supervisor of thread t has recorded the end of a connection (lines
\* 135, 141) and has not yet started the next one
BetweenConnections(t) ==
    \/ supPc[t] \in {"recheck", "backoff"}
    \/ supPc[t] \in {"check", "connecting"} /\ waitCount[t] > 0

\* stop() has run to its end
Stopped == stop_event /\ callerPc = "idle"

\* C38: is_healthy is false whenever a supervisor loop is between two
\* connections and whenever the manager has been stopped.
C38_UnhealthyBetweenConnections ==
    /\ \A t \in Threads : BetweenConnections(t) => ~is_healthy
    /\ Stopped => ~is_healthy

\* C39: no step clears the stop signal; and once it is set, a supervisor
\* loop or a monitor loop that is not yet started or is at its loop test goes
\* nowhere but to its exit, so the threads of a start() made after stop()
\* call start_forever never and run no health check.
C39_StopIsFinal ==
    [][stop_event =>
         /\ stop_event'
         /\ \A t \in Threads :
               /\ supPc[t] \in {"none", "check"}
                    => supPc'[t] \in {"none", "check", "exit"}
               /\ monPc[t] \in {"none", "check"}
                    => monPc'[t] \in {"none", "check", "exit"}]_vars

\* start() was called again after stop(): both of its threads have ended,
\* the only connection attempt is the one of the first start(), and the
\* client it created has never been run
C39_Witness ==
    /\ stop_event
    /\ callerPc = "idle"
    /\ stream_client = 2
    /\ supPc[1] = "exit" /\ monPc[1] = "exit"
    /\ supPc[2] = "exit" /\ monPc[2] = "exit"
    /\ runningOn[2] = 0
    /\ managerStats.connection_attempts = 1

\* C40: in every state of the handler, whatever the interleaving of process
\* and reset_stats calls, messages_processed + timeouts <= messages_received.
C40_ProcessedWithinReceived ==
    handlerStats.messages_processed + handlerStats.timeouts
        <= handlerStats.messages_received

====
